---- MODULE Spec2Model ----
(***************************************************************************)
(* workspace-manager: the binary (src/main.rs) and the library             *)
(* (src/lib.rs) that build a <name>.code-workspace document from a         *)
(* directory scan and an optional existing workspace file.                 *)
(*                                                                         *)
(* Strings are TLA+ strings.  A path is a record [abs, comps]: whether it  *)
(* is absolute and its components.  A folder's display name               *)
(* format!("<emblem> {}", name) is the pair <<emblem, name>>.  An          *)
(* Option<T> is a sequence of length 0 (None) or 1 (Some).                 *)
(***************************************************************************)
EXTENDS Integers, Sequences, FiniteSets, TLC

VARIABLES file, run

vars == <<file, run>>

(***************************************************************************)
(* Bounds                                                                  *)
(***************************************************************************)
\* longest task list of a workspace file that exists before the first run
MaxTasks == 2

(***************************************************************************)
(* Literals of the source                                                  *)
(***************************************************************************)
UpdateLabel == "Update Workspace"
FallbackExe == "workspace-manager"
TasksVersion == "2.0.0"
FolderEmblem == "package"
CurrentEmblem == "construction"

\* the path env::current_exe() returns when it succeeds
ResolvedExe == "/usr/local/bin/workspace-manager"

None == <<>>
Some(x) == <<x>>

(***************************************************************************)
(* The file system the tool runs in: the working directory /w, holding     *)
(* sub (a directory), .git (a hidden directory) and README (a file);       *)
(* /w/sub holds the directories a, b and .c.  The tracked target file is   *)
(* /w/w.code-workspace.                                                    *)
(***************************************************************************)
AbsPath(comps) == [abs |-> TRUE, comps |-> comps]
RelPath(comps) == [abs |-> FALSE, comps |-> comps]

Cwd == AbsPath(<<"w">>)
TargetName == "w"

\* the names of the model that begin with '.'
DotNames == {".git", ".c", ".", ".."}

\* the orders in which read_dir yields the entries of p: the order below and
\* its reverse
Listings(p) ==
    IF p = AbsPath(<<"w">>)
    THEN { << [name |-> "sub", is_dir |-> TRUE],
              [name |-> ".git", is_dir |-> TRUE],
              [name |-> "README", is_dir |-> FALSE] >>,
           << [name |-> "README", is_dir |-> FALSE],
              [name |-> ".git", is_dir |-> TRUE],
              [name |-> "sub", is_dir |-> TRUE] >> }
    ELSE { << [name |-> "a", is_dir |-> TRUE],
              [name |-> "b", is_dir |-> TRUE],
              [name |-> ".c", is_dir |-> TRUE] >>,
           << [name |-> ".c", is_dir |-> TRUE],
              [name |-> "b", is_dir |-> TRUE],
              [name |-> "a", is_dir |-> TRUE] >> }

(***************************************************************************)
(* std::path                                                               *)
(***************************************************************************)
\* Path::new(s) for a one-component string
PathNew(s) == RelPath(<<s>>)

\* Path::file_name: the last component, None when it is ".." or missing;
\* a lone "." component stays ("." has no file name), inner ones are dropped
file_name(p) ==
    IF Len(p.comps) = 0 THEN None
    ELSE IF p.comps[Len(p.comps)] \in {"..", "."} THEN None
    ELSE Some(p.comps[Len(p.comps)])

\* PathBuf::join of a directory and an entry name
PathJoin(p, name) == [abs |-> p.abs, comps |-> Append(p.comps, name)]

IsPrefix(s, t) == Len(s) <= Len(t) /\ SubSeq(t, 1, Len(s)) = s

\* Path::strip_prefix: Some(rest) or None
strip_prefix(p, base) ==
    IF p.abs = base.abs /\ IsPrefix(base.comps, p.comps)
    THEN Some(RelPath(SubSeq(p.comps, Len(base.comps) + 1, Len(p.comps))))
    ELSE None

\* Path::canonicalize of a relative argument against the working directory
RECURSIVE Normalize(_, _)
Normalize(acc, comps) ==
    IF comps = <<>> THEN acc
    ELSE IF Head(comps) = "." THEN Normalize(acc, Tail(comps))
    ELSE IF Head(comps) = ".."
         THEN Normalize(IF acc = <<>> THEN acc ELSE SubSeq(acc, 1, Len(acc) - 1),
                        Tail(comps))
    ELSE Normalize(Append(acc, Head(comps)), Tail(comps))

canonicalize(p) ==
    IF p.abs THEN AbsPath(Normalize(<<>>, p.comps))
    ELSE AbsPath(Normalize(Cwd.comps, p.comps))

\* is_hidden: the file name starts with '.'
is_hidden(p) ==
    LET n == file_name(p)
    IN  IF n = None THEN FALSE ELSE n[1] \in DotNames

\* pathdiff::diff_paths(path, base): Some(relative path) or None
RECURSIVE ParentDirs(_)
ParentDirs(n) == IF n = 0 THEN <<>> ELSE <<"..">> \o ParentDirs(n - 1)

RECURSIVE DiffLoop(_, _, _)
DiffLoop(ita, itb, comps) ==
    IF ita = <<>> /\ itb = <<>> THEN Some(comps)
    ELSE IF itb = <<>> THEN Some(comps \o ita)
    ELSE IF ita = <<>> THEN DiffLoop(ita, Tail(itb), Append(comps, ".."))
    ELSE IF comps = <<>> /\ Head(ita) = Head(itb)
         THEN DiffLoop(Tail(ita), Tail(itb), comps)
    ELSE IF Head(itb) = "."
         THEN DiffLoop(Tail(ita), Tail(itb), Append(comps, Head(ita)))
    ELSE IF Head(itb) = ".." THEN None
    ELSE Some(comps \o ParentDirs(Len(itb)) \o ita)

diff_paths(path, base) ==
    IF path.abs # base.abs
    THEN IF path.abs THEN Some(path) ELSE None
    ELSE LET r == DiffLoop(path.comps, base.comps, <<>>)
         IN  IF r = None THEN None ELSE Some(RelPath(r[1]))

(***************************************************************************)
(* Documents                                                               *)
(***************************************************************************)
EmptyMap == [k \in {} |-> "v"]

\* a task list edited by hand before the tool runs: another task, and an
\* "Update Workspace" task written by an earlier version of the tool
OtherTask ==
    [label |-> "Existing Task", task_type |-> "shell", command |-> "echo",
     args |-> <<"hello">>]
StaleTask ==
    [label |-> UpdateLabel, task_type |-> "process", command |-> "old-exe",
     args |-> <<>>]
StaleFolder == [path |-> RelPath(<<"gone">>), name |-> <<FolderEmblem, "gone">>]

ExtraKeys == {"settings"}
ExtraVals == {"v1", "v2"}

SeqsUpTo(S, n) == UNION { [1..k -> S] : k \in 0..n }

\* the JSON objects that deserialize as a workspace document
InitDocs ==
    { [folders |-> f, tasks |-> t, other |-> o] :
        f \in {<<>>, <<StaleFolder>>},
        t \in {None} \cup { Some([version |-> TasksVersion, tasks |-> ts]) :
                              ts \in SeqsUpTo({OtherTask, StaleTask}, MaxTasks) },
        o \in UNION { [K -> ExtraVals] : K \in SUBSET ExtraKeys } }

\* WorkspaceFile::default()
DefaultDoc == [folders |-> <<>>, tasks |-> None, other |-> EmptyMap]

Absent == [kind |-> "absent", doc |-> DefaultDoc]
Malformed == [kind |-> "malformed", doc |-> DefaultDoc]
Json(doc) == [kind |-> "json", doc |-> doc]

\* serde_json::from_str::<WorkspaceFile> of src/lib.rs: folders and tasks are
\* read into their fields, every other key is collected by the flattened map
LibFromStr(content) ==
    IF content.kind = "json" THEN Some(content.doc) ELSE None

\* serde_json::from_str::<WorkspaceFile> of src/main.rs: the struct has the
\* fields folders and tasks only; serde ignores the keys it does not know
MainFromStr(content) ==
    IF content.kind = "json"
    THEN Some([folders |-> content.doc.folders, tasks |-> content.doc.tasks])
    ELSE None

\* serde_json::to_string_pretty of the WorkspaceFile of src/main.rs
MainToJson(ws) ==
    Json([folders |-> ws.folders, tasks |-> ws.tasks, other |-> EmptyMap])

RECURSIVE Retain(_, _)
\* Vec::retain(|t| t.label != label)
Retain(ts, label) ==
    IF ts = <<>> THEN <<>>
    ELSE IF Head(ts).label # label
         THEN <<Head(ts)>> \o Retain(Tail(ts), label)
         ELSE Retain(Tail(ts), label)

RECURSIVE CountLabel(_, _)
CountLabel(ts, label) ==
    IF ts = <<>> THEN 0
    ELSE (IF Head(ts).label = label THEN 1 ELSE 0) + CountLabel(Tail(ts), label)

(***************************************************************************)
(* Directory scanner (the same function in src/lib.rs and src/main.rs)     *)
(***************************************************************************)
RECURSIVE scan_directories_NoHiddenFilter(_, _)
\* scan_directories without the is_hidden test
scan_directories_NoHiddenFilter(base_path, ls) ==
    IF ls = <<>> THEN <<>>
    ELSE (IF Head(ls).is_dir THEN <<PathJoin(base_path, Head(ls).name)>> ELSE <<>>)
         \o scan_directories_NoHiddenFilter(base_path, Tail(ls))

RECURSIVE scan_directories(_, _)
\* ls: the entries of base_path in the order read_dir yields them
scan_directories(base_path, ls) ==
    IF ls = <<>> THEN <<>>
    ELSE LET path == PathJoin(base_path, Head(ls).name)
         IN  (IF Head(ls).is_dir /\ ~is_hidden(path) THEN <<path>> ELSE <<>>)
             \o scan_directories(base_path, Tail(ls))

(***************************************************************************)
(* src/lib.rs                                                              *)
(***************************************************************************)
LibArgs ==
    [path : {".", "sub"}, exclude_current : BOOLEAN,
     name : {None, Some(TargetName)}, update_task : BOOLEAN]

\* Some(folder) or None for Err
create_workspace_folder(path, base_path, scan_path) ==
    LET name == file_name(path)
        relative_path ==
            IF path = scan_path
            THEN LET sp == strip_prefix(scan_path, base_path)
                 IN  Some(IF sp = None THEN PathNew(".") ELSE sp[1])
            ELSE diff_paths(path, base_path)
    IN  IF name = None THEN None
        ELSE IF relative_path = None THEN None
        ELSE Some([path |-> relative_path[1], name |-> <<FolderEmblem, name[1]>>])

merge_tasks(existing, new_task) ==
    LET tasks == IF existing = None
                 THEN [version |-> TasksVersion, tasks |-> <<>>]
                 ELSE existing[1]
    IN  [version |-> tasks.version,
         tasks |-> Append(Retain(tasks.tasks, UpdateLabel), new_task)]

args_to_vec(args) ==
    (IF args.name # None THEN <<"--name", args.name[1]>> ELSE <<>>)
    \o (IF args.exclude_current THEN <<"--exclude-current">> ELSE <<>>)
    \o <<"--path", args.path>>

\* exe: the result of env::current_exe(), Some(path) or None for Err
create_workspace_task(args, exe) ==
    [version |-> TasksVersion,
     tasks |-> << [label |-> UpdateLabel, task_type |-> "process",
                   command |-> IF exe = None THEN FallbackExe ELSE exe[1],
                   args |-> args_to_vec(args)] >>]

\* a Result: Ok(value) or Err(cause)
Ok(v) == [ok |-> TRUE, cause |-> "none", val |-> Some(v)]
Err(c) == [ok |-> FALSE, cause |-> c, val |-> None]

\* What a run meets in its environment: exe is the result of
\* env::current_exe(), ls the order in which read_dir yields the entries of
\* the scan path, fault the system call that fails ("none" when none does).
LibFaults == {"none", "current_dir", "read", "scan"}
MainFaults == {"none", "canonicalize", "read", "scan", "write"}

\* a run that meets a fault before it scans is modelled with one listing
Envs(scan_path, faults) ==
    [exe : {None, Some(ResolvedExe)}, ls : Listings(scan_path), fault : {"none"}]
    \cup { [exe |-> Some(ResolvedExe),
            ls |-> CHOOSE l \in Listings(scan_path) : TRUE,
            fault |-> f] : f \in faults \ {"none"} }

\* lines 171-196 of create_workspace: the tasks and the other sections of the
\* new document; Err when current_exe fails at line 185
LibLoad(content, update_task, args, env) ==
    LET default == [tasks |-> None, other |-> EmptyMap]
        existing == IF env.fault = "read" THEN None ELSE LibFromStr(content)
    IN  IF content.kind = "absent"
        THEN Ok([default EXCEPT !.tasks = Some(create_workspace_task(args, env.exe))])
        ELSE IF existing = None THEN Ok(default)
        ELSE LET kept == [tasks |-> existing[1].tasks, other |-> existing[1].other]
             IN  IF ~update_task THEN Ok(kept)
                 ELSE IF kept.tasks = None
                 THEN Ok([kept EXCEPT !.tasks = Some(create_workspace_task(args, env.exe))])
                 ELSE IF env.exe = None THEN Err("current_exe")
                 ELSE Ok([kept EXCEPT !.tasks = Some(
                        [version |-> kept.tasks[1].version,
                         tasks |-> Append(Retain(kept.tasks[1].tasks, UpdateLabel),
                                          [label |-> UpdateLabel,
                                           task_type |-> "process",
                                           command |-> env.exe[1],
                                           args |-> args_to_vec(args)])])])

RECURSIVE LibFolders(_, _, _)
\* lines 207-210 of create_workspace: Some(entries), None when one fails
LibFolders(dirs, base_path, scan_path) ==
    IF dirs = <<>> THEN Some(<<>>)
    ELSE LET folder == create_workspace_folder(Head(dirs), base_path, scan_path)
             rest == LibFolders(Tail(dirs), base_path, scan_path)
         IN  IF folder = None \/ rest = None THEN None
             ELSE Some(<<folder[1]>> \o rest[1])

\* create_workspace of src/lib.rs, reading the target file's content
create_workspace(scan_path, workspace_name, exclude_current, update_task, args, content, env) ==
    LET base_path == Cwd
        loaded == LibLoad(content, update_task, args, env)
        current == IF ~exclude_current
                   THEN << [path |-> PathNew("."),
                            name |-> <<CurrentEmblem, workspace_name>>] >>
                   ELSE <<>>
        folders == LibFolders(scan_directories(scan_path, env.ls),
                              base_path, scan_path)
    IN  IF env.fault = "current_dir" THEN Err("current_dir")
        ELSE IF ~loaded.ok THEN loaded
        ELSE IF env.fault = "scan" THEN Err("scan")
        ELSE IF folders = None THEN Err("folder")
        ELSE Ok([folders |-> current \o folders[1],
                 tasks |-> loaded.val[1].tasks,
                 other |-> loaded.val[1].other])

(***************************************************************************)
(* src/main.rs                                                             *)
(***************************************************************************)
MainArgs ==
    [path : {".", "sub"}, include_current : BOOLEAN,
     name : {None, Some(TargetName)}, update_tasks : BOOLEAN]

\* create_workspace_folder of src/main.rs: Some(folder) or None for Err
main_create_workspace_folder(path, base_path) ==
    LET relative_path == strip_prefix(path, base_path)
        name == file_name(path)
    IN  IF relative_path = None THEN None
        ELSE IF name = None THEN None
        ELSE Some([path |-> relative_path[1], name |-> <<FolderEmblem, name[1]>>])

\* create_workspace_task of src/main.rs
main_create_workspace_task(args, exe) ==
    LET current_exe == IF exe = None THEN FallbackExe ELSE exe[1]
        task_args ==
            (IF args.name # None THEN <<"--name", args.name[1]>> ELSE <<>>)
            \o (IF args.include_current THEN <<"--include-current">> ELSE <<>>)
            \o <<"--path", args.path>>
    IN  [version |-> TasksVersion,
         tasks |-> << [label |-> UpdateLabel, task_type |-> "process",
                       command |-> current_exe, args |-> task_args] >>]

\* lines 123-129 of main: the workspace name
MainWorkspaceName(args) ==
    IF args.name # None THEN args.name[1]
    ELSE LET n == file_name(canonicalize(PathNew(args.path)))
         IN  IF n = None THEN "" ELSE n[1]

\* MainLoad that builds the TaskSet whenever the loaded file has none
MainLoad_CreateMissing(content, args, env) ==
    LET parsed == MainFromStr(content)
        existing == IF content.kind = "absent" \/ parsed = None
                    THEN [folders |-> <<>>, tasks |-> None]
                    ELSE parsed[1]
    IN  IF args.update_tasks \/ existing.tasks = None
        THEN [existing EXCEPT
                !.tasks = Some(main_create_workspace_task(args, env.exe))]
        ELSE existing

\* MainLoad that appends the new task to the existing TaskSet
MainLoad_Append(content, args, env) ==
    LET parsed == MainFromStr(content)
        existing == IF content.kind = "absent" \/ parsed = None
                    THEN [folders |-> <<>>, tasks |-> None]
                    ELSE parsed[1]
        new == main_create_workspace_task(args, env.exe)
    IN  IF content.kind = "absent" THEN [existing EXCEPT !.tasks = Some(new)]
        ELSE IF ~args.update_tasks THEN existing
        ELSE IF existing.tasks = None THEN [existing EXCEPT !.tasks = Some(new)]
        ELSE [existing EXCEPT !.tasks =
                Some([version |-> existing.tasks[1].version,
                      tasks |-> existing.tasks[1].tasks \o new.tasks])]

\* MainLoad that starts from WorkspaceFile::default() whenever the file exists
MainLoad_DropExisting(content, args, env) ==
    IF content.kind = "absent" \/ args.update_tasks
    THEN [folders |-> <<>>,
          tasks |-> Some(main_create_workspace_task(args, env.exe))]
    ELSE [folders |-> <<>>, tasks |-> None]

\* lines 132-143 of main: the WorkspaceFile before its folders are rebuilt
MainLoad(content, args, env) ==
    IF content.kind # "absent"
    THEN LET parsed == MainFromStr(content)
             existing == IF parsed = None
                         THEN [folders |-> <<>>, tasks |-> None]
                         ELSE parsed[1]
         IN  IF args.update_tasks
             THEN [existing EXCEPT
                     !.tasks = Some(main_create_workspace_task(args, env.exe))]
             ELSE existing
    ELSE [folders |-> <<>>,
          tasks |-> Some(main_create_workspace_task(args, env.exe))]

RECURSIVE MainFolders(_, _)
\* lines 155-160 of main: Some(entries), None when one fails
MainFolders(dirs, base_path) ==
    IF dirs = <<>> THEN Some(<<>>)
    ELSE LET folder == main_create_workspace_folder(Head(dirs), base_path)
             rest == MainFolders(Tail(dirs), base_path)
         IN  IF rest = None THEN None
             ELSE IF is_hidden(Head(dirs)) THEN rest
             ELSE IF folder = None THEN None
             ELSE Some(<<folder[1]>> \o rest[1])

\* lines 145-152 of main: folders.clear() and the current-directory entry
MainClear(workspace, args) ==
    [workspace EXCEPT !.folders =
        IF args.include_current
        THEN << [path |-> PathNew("."),
                 name |-> <<CurrentEmblem, MainWorkspaceName(args)>>] >>
        ELSE <<>>]

\* lines 119-162 of main, up to the serialized document: Ok(json) or Err
MainDocument(content, args, env) ==
    LET base_path == canonicalize(PathNew(args.path))
        workspace == MainClear(MainLoad(content, args, env), args)
        folders == MainFolders(scan_directories(base_path, env.ls), base_path)
    IN  IF env.fault = "canonicalize" THEN Err("canonicalize")
        ELSE IF content.kind # "absent" /\ env.fault = "read" THEN Err("read")
        ELSE IF env.fault = "scan" THEN Err("scan")
        ELSE IF folders = None THEN Err("folder")
        ELSE Ok(MainToJson([workspace EXCEPT
                              !.folders = workspace.folders \o folders[1]]))

(***************************************************************************)
(* State: file is the content of the target file w.code-workspace; run     *)
(* records the most recent invocation: the program, its arguments, what    *)
(* it met in its environment, the target file's content when it started,   *)
(* its exit status and the document it produced.                           *)
(***************************************************************************)
NoRun ==
    [prog |-> "none", args |-> None, env |-> None, before |-> Absent,
     status |-> "none", cause |-> "none", result |-> None]

Init ==
    /\ file \in {Absent, Malformed} \cup { Json(d) : d \in InitDocs }
    /\ run = NoRun

Finished(prog, args, env, out) ==
    [prog |-> prog, args |-> args, env |-> env, before |-> file,
     status |-> IF out.ok THEN "ok" ELSE "err", cause |-> out.cause,
     result |-> out.val]

\* main that writes the loaded document before it scans
main_WriteFirst(args, env) ==
    \E out \in {MainDocument(file, args, env)} :
        /\ MainWorkspaceName(args) = TargetName
        /\ IF env.fault = "canonicalize"
              \/ (file.kind # "absent" /\ env.fault = "read")
           THEN /\ file' = file
                /\ run' = Finished("main", args, env, out)
           ELSE IF ~out.ok
           THEN /\ file' = MainToJson(MainClear(MainLoad(file, args, env), args))
                /\ run' = Finished("main", args, env, out)
           ELSE IF env.fault = "write"
           THEN /\ file' \in {file, Malformed}
                /\ run' = Finished("main", args, env, Err("write"))
           ELSE /\ file' = out.val[1]
                /\ run' = Finished("main", args, env, Ok(out.val[1].doc))

\* one run of the binary against the target file (src/main.rs, main); a run
\* whose workspace name is not the target's writes another file
main(args, env) ==
    \E out \in {MainDocument(file, args, env)} :
        /\ MainWorkspaceName(args) = TargetName
        /\ IF ~out.ok
           THEN /\ file' = file
                /\ run' = Finished("main", args, env, out)
           ELSE IF env.fault = "write"
           THEN \* fs::write fails: before it creates the file, or after it
                \* has truncated it
                /\ file' \in {file, Malformed}
                /\ run' = Finished("main", args, env, Err("write"))
           ELSE /\ file' = out.val[1]
                /\ run' = Finished("main", args, env, Ok(out.val[1].doc))

\* one call of the library's create_workspace for the target file, as the
\* tests call it: the scan path of the arguments made absolute, and the
\* flags of the arguments
lib_create_workspace(args, env) ==
    /\ file' = file
    /\ run' = Finished("lib", args, env,
                create_workspace(canonicalize(PathNew(args.path)), TargetName,
                                 args.exclude_current, args.update_task,
                                 args, file, env))

\* one call of the library's merge_tasks on the target file's task set
lib_merge_tasks(existing, new_task) ==
    /\ file' = file
    /\ run' = Finished("merge_tasks", [existing |-> existing, new_task |-> new_task],
                       None, Ok(merge_tasks(existing, new_task)))

NewTasks ==
    { create_workspace_task(
          [path |-> ".", exclude_current |-> FALSE, name |-> n,
           update_task |-> TRUE], e).tasks[1] :
        n \in {None, Some(TargetName)}, e \in {None, Some(ResolvedExe)} }

NextMain ==
    \E args \in MainArgs :
      \E env \in Envs(canonicalize(PathNew(args.path)), MainFaults) :
         main(args, env)

NextLib ==
    \/ \E args \in LibArgs :
         \E env \in Envs(canonicalize(PathNew(args.path)), LibFaults) :
            lib_create_workspace(args, env)
    \/ \E new_task \in NewTasks :
         \E existing \in {None, file.doc.tasks} :
            lib_merge_tasks(existing, new_task)

\* runs of the binary
SpecMain == Init /\ [][NextMain]_vars

\* calls of the library
SpecLib == Init /\ [][NextLib]_vars

(***************************************************************************)
(* Vocabulary of the properties                                            *)
(***************************************************************************)
\* the last invocation was a run of the binary or a call of create_workspace
IsRun == run.prog \in {"main", "lib"}
RunOk == IsRun /\ run.status = "ok"

UpdateFlag ==
    IF run.prog = "main" THEN run.args.update_tasks ELSE run.args.update_task

IncludeCurrent ==
    IF run.prog = "main" THEN run.args.include_current
    ELSE ~run.args.exclude_current

\* the arguments the "Update Workspace" task is to carry, in order
ExpectedArgs ==
    (IF run.args.name # None THEN <<"--name", run.args.name[1]>> ELSE <<>>)
    \o (IF run.prog = "main"
        THEN (IF run.args.include_current THEN <<"--include-current">> ELSE <<>>)
        ELSE (IF run.args.exclude_current THEN <<"--exclude-current">> ELSE <<>>))
    \o <<"--path", run.args.path>>

ExpectedTask ==
    [label |-> UpdateLabel, task_type |-> "process",
     command |-> IF run.env.exe = None THEN FallbackExe ELSE run.env.exe[1],
     args |-> ExpectedArgs]

FreshTaskSet == [version |-> TasksVersion, tasks |-> <<ExpectedTask>>]

\* the entries of the listing that are directories and not hidden, in order
IsVisibleDir(e) == e.is_dir /\ e.name \notin DotNames
Visible == SelectSeq(run.env.ls, IsVisibleDir)

\* the scan path of the run, absolute
ScanRoot == canonicalize(PathNew(run.args.path))

\* the document holds the current-directory entry first iff requested, then
\* one entry per visible directory of the listing, in the listing's order
FoldersFromScan(fs) ==
    LET k == IF IncludeCurrent THEN 1 ELSE 0
    IN  /\ Len(fs) = k + Len(Visible)
        /\ IncludeCurrent =>
             fs[1] = [path |-> PathNew("."), name |-> <<CurrentEmblem, TargetName>>]
        /\ \A i \in 1..Len(Visible) :
             /\ fs[k + i].name = <<FolderEmblem, Visible[i].name>>
             /\ fs[k + i].path.comps # <<>>
             /\ fs[k + i].path.comps[Len(fs[k + i].path.comps)] = Visible[i].name

UpCount(content) ==
    IF content.kind = "json" /\ content.doc.tasks # None
    THEN CountLabel(content.doc.tasks[1].tasks, UpdateLabel)
    ELSE 0

(***************************************************************************)
(* C1: whenever the target file exists and parses, the document a run      *)
(* produces holds exactly the extraneous top-level keys of that file,      *)
(* with the same values.                                                   *)
(***************************************************************************)
C1_ExtraneousKeysPreserved ==
    (RunOk /\ run.before.kind = "json" /\ run.env.fault = "none")
        => run.result[1].other = run.before.doc.other

(***************************************************************************)
(* C2: when the existing file parses and holds a TaskSet, a run with the   *)
(* update flag yields the existing tasks not labeled "Update Workspace",   *)
(* unchanged and in order, followed by the newly built task; and so does   *)
(* merge_tasks.                                                            *)
(***************************************************************************)
C2_TaskUpdateReplaces ==
    /\ (RunOk /\ run.before.kind = "json" /\ run.env.fault = "none"
          /\ run.before.doc.tasks # None /\ UpdateFlag)
        => /\ run.result[1].tasks # None
           /\ run.result[1].tasks[1].tasks =
                Append(Retain(run.before.doc.tasks[1].tasks, UpdateLabel),
                       ExpectedTask)
    /\ (run.prog = "merge_tasks" /\ run.args.existing # None)
        => /\ run.result[1].tasks =
                Append(Retain(run.args.existing[1].tasks, UpdateLabel),
                       run.args.new_task)
           /\ CountLabel(run.result[1].tasks, UpdateLabel) = 1

(***************************************************************************)
(* C3: when the target file exists but does not parse, the run succeeds    *)
(* and the document has no extraneous keys, folders built from the scan    *)
(* only and a freshly built TaskSet, whatever the update flag.             *)
(***************************************************************************)
C3_MalformedGetsFreshTaskSet ==
    (IsRun /\ run.before.kind = "malformed" /\ run.env.fault = "none")
        => /\ run.status = "ok"
           /\ run.result[1].other = EmptyMap
           /\ FoldersFromScan(run.result[1].folders)
           /\ run.result[1].tasks = Some(FreshTaskSet)

(***************************************************************************)
(* C4 as stated: a parsed file without a TaskSet gets a newly built        *)
(* TaskSet even when the update flag is not set, and so does a run that    *)
(* finds no file.                                                          *)
(***************************************************************************)
C4_MissingTaskSetAlwaysCreated ==
    (RunOk /\ run.env.fault = "none")
        => /\ run.before.kind = "absent"
                => run.result[1].tasks = Some(FreshTaskSet)
           /\ (run.before.kind = "json" /\ run.before.doc.tasks = None)
                => run.result[1].tasks = Some(FreshTaskSet)

(***************************************************************************)
(* C4 as amended: a run that finds no file always attaches a newly built   *)
(* TaskSet; a parsed file without a TaskSet gets a newly built TaskSet     *)
(* when the update flag is set, and stays without one when it is not.      *)
(***************************************************************************)
C4_MissingTaskSetCreatedOnUpdate ==
    (RunOk /\ run.env.fault = "none")
        => /\ run.before.kind = "absent"
                => run.result[1].tasks = Some(FreshTaskSet)
           /\ (run.before.kind = "json" /\ run.before.doc.tasks = None)
                => run.result[1].tasks =
                     IF UpdateFlag THEN Some(FreshTaskSet) ELSE None

C4_Witness ==
    /\ run.prog = "main" /\ run.status = "ok" /\ run.env.fault = "none"
    /\ run.before.kind = "json" /\ run.before.doc.tasks = None
    /\ ~run.args.update_tasks
    /\ file.kind = "json" /\ file.doc.tasks = None

(***************************************************************************)
(* C5 as stated: every document a run produces holds at most one task      *)
(* labeled "Update Workspace", whatever parseable file the runs started    *)
(* from.                                                                   *)
(***************************************************************************)
C5_AtMostOneUpdateTask ==
    RunOk => UpCount(Json(run.result[1])) <= 1

(***************************************************************************)
(* C5 as amended: a run with the update flag always produces a document    *)
(* with exactly one task labeled "Update Workspace"; a run without it      *)
(* produces at most one if the file it read held at most one (or was       *)
(* absent or malformed); so a target file that holds at most one keeps     *)
(* at most one over any sequence of runs.                                  *)
(***************************************************************************)
C5_UpdateTaskNotDuplicated ==
    /\ [](RunOk =>
            /\ UpCount(run.before) <= 1 => UpCount(Json(run.result[1])) <= 1
            /\ (UpdateFlag /\ run.env.fault = "none"
                  /\ (run.prog = "main" \/ run.before.kind # "malformed"))
                 => UpCount(Json(run.result[1])) = 1)
    /\ [][UpCount(file) <= 1 => UpCount(file') <= 1]_vars

C5_Witness ==
    /\ run.prog = "main" /\ run.status = "ok" /\ run.args.update_tasks
    /\ UpCount(run.before) = 2
    /\ UpCount(file) = 1

(***************************************************************************)
(* C6: a run of the binary that follows a successful run with the same     *)
(* arguments, the same scan order and the same executable path writes the  *)
(* document the first run wrote, whatever the target file held before the  *)
(* first run.                                                              *)
(***************************************************************************)
C6_Idempotent ==
    [][(/\ run.prog = "main" /\ run.status = "ok"
        /\ run'.prog = "main" /\ run'.status = "ok"
        /\ run'.args = run.args /\ run'.env = run.env)
            => file' = file]_vars

\* the second of two identical runs has rewritten the document it read
C6_Witness ==
    /\ run.prog = "main" /\ run.status = "ok" /\ run.args.update_tasks
    /\ run.before = file
    /\ file.kind = "json" /\ Len(file.doc.folders) = 3

(***************************************************************************)
(* C7: in every branch the folder list of the produced document is the     *)
(* current-directory entry (path ".", name = emblem + workspace name)      *)
(* first iff inclusion is requested, then one entry per immediate child    *)
(* of the scan path that is a directory and whose name does not start      *)
(* with '.', in scan order; no folder entry of the previous file survives. *)
(***************************************************************************)
C7_FoldersRebuilt ==
    RunOk => /\ FoldersFromScan(run.result[1].folders)
             /\ \A i \in 1..Len(run.result[1].folders) :
                  run.result[1].folders[i] # StaleFolder

C7_Witness ==
    /\ run.prog = "lib" /\ run.status = "ok" /\ ~run.args.exclude_current
    /\ run.before.kind = "json" /\ run.before.doc.folders = <<StaleFolder>>
    /\ run.args.path = "sub" /\ run.env.ls[1].name = ".c"
    /\ Len(run.result[1].folders) = 3

(***************************************************************************)
(* C8: a run that aborts before the write step (scan path that cannot be   *)
(* resolved or listed, unreadable existing file, folder entry that cannot  *)
(* be built, executable path that cannot be resolved) leaves the target    *)
(* file with the content it had before the run.                            *)
(***************************************************************************)
UpstreamCauses ==
    {"current_dir", "canonicalize", "read", "scan", "folder", "current_exe"}

C8_FailedRunLeavesFile ==
    (IsRun /\ run.status = "err" /\ run.cause \in UpstreamCauses)
        => file = run.before

C8_Witness ==
    /\ run.prog = "main" /\ run.status = "err" /\ run.cause = "scan"
    /\ run.before.kind = "json" /\ run.before.doc.tasks # None
    /\ run.args.update_tasks /\ run.args.include_current
    /\ file = run.before

(***************************************************************************)
(* C9: a failure to resolve the executable path never fails a run: the     *)
(* run succeeds, and wherever it builds the "Update Workspace" task (no    *)
(* file; file without TaskSet and update flag; update flag with an         *)
(* existing TaskSet) the task has the command "workspace-manager" and the  *)
(* arguments --name <name> if given, the current-directory flag if set,    *)
(* --path <scan path>, in this order.                                      *)
(***************************************************************************)
C9_ExeFailureNeverFailsRun ==
    (IsRun /\ run.env.fault = "none" /\ run.env.exe = None)
        => /\ run.status = "ok"
           /\ (\/ run.before.kind = "absent"
               \/ run.before.kind = "json" /\ UpdateFlag)
                => /\ run.result[1].tasks # None
                   /\ LET ts == run.result[1].tasks[1].tasks
                      IN  /\ ts # <<>>
                          /\ ts[Len(ts)].label = UpdateLabel
                          /\ ts[Len(ts)].command = FallbackExe
                          /\ ts[Len(ts)].args = ExpectedArgs

(***************************************************************************)
(* C10: every folder entry built for a scanned directory P has as path the *)
(* exact relative path from the workspace root (the working directory) to  *)
(* P, also when the scan path is not the working directory, and as name    *)
(* the package emblem followed by P's final segment.                       *)
(***************************************************************************)
C10_FoldersRelativeToWorkspaceRoot ==
    RunOk =>
        LET fs == run.result[1].folders
            k == IF IncludeCurrent THEN 1 ELSE 0
        IN  /\ Len(fs) = k + Len(Visible)
            /\ \A i \in 1..Len(Visible) :
                 /\ fs[k + i].path = RelPath(
                        SubSeq(ScanRoot.comps, Len(Cwd.comps) + 1,
                               Len(ScanRoot.comps))
                        \o <<Visible[i].name>>)
                 /\ fs[k + i].name = <<FolderEmblem, Visible[i].name>>

====
